---- MODULE Spec2Model ----
(***************************************************************************)
(* GIVBayesian (pycroscopy/analysis/giv_bayesian.py): chunked, resumable   *)
(* Bayesian inference over a G-IV dataset.                                 *)
(*                                                                         *)
(* Numbers.  The code computes in floating point; the model keeps exact    *)
(* integers.  cap_val = mean(cValue) * 0.5 is a quarter of the sum of the  *)
(* two capacitance estimates, so the corrected current is kept in quarter  *)
(* units (4 * i_corr).  Everything else is kept in the code's own units.   *)
(*                                                                         *)
(* Storage.  A dataset is a function from the position index (0-based, as  *)
(* in the code) to a row.  A row nobody has written is Unwritten; a row    *)
(* written from a zero-initialised matrix is a sequence of zeros.          *)
(***************************************************************************)
EXTENDS Integers, Sequences, FiniteSets, TLC

\* ------------------------------------------------------------------ bounds
MaxPos == 3        \* h5_main.shape[0] is drawn from 1..MaxPos
HalfCycle == 2     \* the bias waveform has 2 * HalfCycle points
MaxBase == 8       \* base-class estimates of positions per read: 0..MaxBase
MaxReq == 9        \* requested num_x_steps (constructor specs): -MaxReq..MaxReq
MaxRunSteps == 2   \* requested num_x_steps (chunk engine): 1..MaxRunSteps
MaxGroups == 2     \* result groups on the file (duplicate check)

\* ------------------------------------------------------- program constants
MemArrays == 4         \* raw, compensated current, resistance, variance
MaxChunk == 500        \* cap on positions per read
CapScale == 1000       \* nF -> pF
FirstGain == 7         \* "Gain setting on current amplifier (typically 7-9)"

TraceLen == 2 * HalfCycle

Min(a, b) == IF a < b THEN a ELSE b

RECURSIVE Sum(_)
Sum(s) == IF s = <<>> THEN 0 ELSE Head(s) + Sum(Tail(s))

Neg(s) == [i \in 1..Len(s) |-> 0 - s[i]]

Zeros(n) == [i \in 1..n |-> 0]

\* the fill state of a dataset row that no write has reached
Unwritten == <<"unwritten">>

\* ---------------------------------------------------------- the input file
\* h5_main: Total traces of TraceLen points, all different
H5Main(tot) == [p \in 0..(tot - 1) |-> [i \in 1..TraceLen |-> 10 * (p + 1) + i]]

\* Spectroscopic_Values of h5_main, squeezed: one period of the bias
SingleAO == [i \in 1..TraceLen |-> IF i <= HalfCycle THEN i - 1 ELSE TraceLen - i + 1]

\* ------------------------------------------------------------ __init__
\* num_x_steps after the parity fix-up (python // and % floor, as \div and %)
AdjustSteps(n) == IF n % 4 = 0 THEN ((n \div 2) + 1) * 2 ELSE n

\* the inference hyper-parameters, fixed in the code
BayesianParms == [gam |-> "0.03", e |-> "10.0", sigma |-> "10.0", sigmaC |-> "1.0",
                  num_samples |-> "2E3"]

\* parms_dict: freq, num_x_steps, r_extra and the hyper-parameters (no gain)
ParmsDictNoRExtra(freq, steps, rx) ==
    [freq |-> freq, num_x_steps |-> steps, r_extra |-> 0, bayes |-> BayesianParms]
ParmsDict(freq, steps, rx) ==
    [freq |-> freq, num_x_steps |-> steps, r_extra |-> rx, bayes |-> BayesianParms]

\* int(size * -0.25): int() truncates towards zero
RollPts(size) == 0 - (size \div 4)

\* np.roll(s, k): element i moves to i + k, cyclically
Roll(s, k) == [i \in 1..Len(s) |-> s[((i - 1 - k) % Len(s)) + 1]]

RolledBias == Roll(SingleAO, RollPts(TraceLen))

\* dvdt = np.diff(single_ao) / dt with dt = 1 / (ex_freq * size); last repeated
Dvdt(freq) ==
    [i \in 1..TraceLen |->
        LET j == IF i < TraceLen THEN i ELSE TraceLen - 1
        IN  (SingleAO[j + 1] - SingleAO[j]) * freq * TraceLen]

\* ------------------------------------------------- _set_memory_and_cores
\* base: the base class's estimate of the positions that fit in memory
MaxPosPerRead(base) == Min(MaxChunk, base \div MemArrays)

\* ------------------------------------------------------------- compute
\* _bayes_parms: parms_dict without freq, num_x_steps halved, econ set
BayesParms(parms) ==
    [num_x_steps |-> parms.num_x_steps \div 2, econ |-> TRUE,
     r_extra |-> parms.r_extra, bayes |-> parms.bayes]

\* ------------------------------------------------ external collaborators
\* do_bayesian_inference on one half-cycle: a pure function of its
\* arguments.  n is the number of points it returns (num_x_steps of
\* _bayes_parms when it keeps its contract).
DoBayesianInference(trace, bias, freq, n) ==
    [x      |-> [i \in 1..n |-> i],
     mR     |-> [i \in 1..n |-> Sum(trace) + i * freq],
     vR     |-> [i \in 1..n |-> Sum(bias) + 2 * i],
     cValue |-> Sum(trace) + freq]

\* parallel_compute: one result per row, in the order of the rows.  count
\* and n are what the call returns; they differ from Len(rows) and from
\* the requested number of points only when the contract is broken.
ParallelCompute(rows, bias, freq, count, n) ==
    [i \in 1..count |->
        DoBayesianInference(IF i <= Len(rows) THEN rows[i] ELSE <<>>, bias, freq, n)]

\* -------------------------------------------------- _unit_computation
RolledRawData(dat) == [i \in 1..Len(dat) |-> Roll(dat[i], RollPts(TraceLen))]

\* rolled_raw_data[:, :half_v_steps] * -1 with rolled_bias[:half_v_steps] * -1
ReverseInput(dat) ==
    [i \in 1..Len(dat) |-> Neg(SubSeq(RolledRawData(dat)[i], 1, TraceLen \div 2))]
ReverseBias == Neg(SubSeq(RolledBias, 1, TraceLen \div 2))

\* rolled_raw_data[:, half_v_steps:] with rolled_bias[half_v_steps:]
ForwardInput(dat) ==
    [i \in 1..Len(dat) |-> SubSeq(RolledRawData(dat)[i], (TraceLen \div 2) + 1, TraceLen)]
ForwardBias == SubSeq(RolledBias, (TraceLen \div 2) + 1, TraceLen)

\* no try/except around either parallel_compute call: a raise in either
\* propagates out of _unit_computation
PropagatesReverseOnly(raises) == raises = "reverse"
Propagates(raises) == raises # "none"

\* ------------------------------------------------ _write_results_chunk
\* numpy row assignment mat[pix_ind] = v: v has the row's width, or one
\* element that is broadcast; anything else raises ValueError
RowFits(len, width) == len = width \/ len = 1
AssignRow(v, width) == IF Len(v) = width THEN v ELSE [i \in 1..width |-> v[1]]

\* one pixel of the accumulation loop
PixelResult(i_meas, forw, rev, rx, freq) ==
    LET capsum == forw.cValue + rev.cValue      \* 4 * cap_val
        dvdt   == Dvdt(freq)
    IN  [i_corr |-> [i \in 1..TraceLen |->
                        4 * i_meas[i] - capsum * dvdt[i] - rx * 2 * capsum * SingleAO[i]],
         cValue |-> <<forw.cValue * CapScale, rev.cValue * CapScale>>,
         x      |-> forw.x \o Neg(rev.x),
         mR     |-> forw.mR \o rev.mR,
         vR     |-> forw.vR \o rev.vR]

\* zip(range(num_pixels), data, forward_results, reverse_results) stops at
\* the shortest of its arguments
ZipLen(dat, fwd, rev) == Min(Len(fwd), Min(Len(dat), Len(rev)))

\* lines 225-261: the four matrices start as zeros, the loop fills the rows
\* it reaches; bad is the first pixel whose merged row does not fit
Accumulate(dat, fwd, rev, steps, rx, freq) ==
    LET np   == Len(fwd)
        k    == ZipLen(dat, fwd, rev)
        pix  == [i \in 1..k |-> PixelResult(dat[i], fwd[i], rev[i], rx, freq)]
        bad  == {i \in 1..k : ~RowFits(Len(pix[i].mR), steps) \/ ~RowFits(Len(pix[i].vR), steps)}
    IN  [exc       |-> IF bad # {} THEN "ValueError" ELSE "none",
         k         |-> k,
         \* the pixels whose reverse x was negated before the loop ended
         reached   |-> IF bad # {} THEN CHOOSE i \in bad : \A j \in bad : i <= j ELSE k,
         cap_mat   |-> [i \in 1..np |-> IF i <= k THEN pix[i].cValue ELSE Zeros(2)],
         r_inf_mat |-> [i \in 1..np |->
                          IF i <= k /\ bad = {} THEN AssignRow(pix[i].mR, steps) ELSE Zeros(steps)],
         r_var_mat |-> [i \in 1..np |->
                          IF i <= k /\ bad = {} THEN AssignRow(pix[i].vR, steps) ELSE Zeros(steps)],
         i_cor_mat |-> [i \in 1..np |-> IF i <= k THEN pix[i].i_corr ELSE Zeros(TraceLen)],
         \* full_results['x'] after the loop is the last pixel's
         x         |-> IF k >= 1 THEN pix[k].x ELSE <<>>]

\* pos_slice = slice(self._start_pos, self._end_pos)
PosSliceFromZero(s, e) == [start |-> 0, stop |-> e - s]
PosSlice(s, e) == [start |-> s, stop |-> e]

\* h5 dataset[pos_slice] = mat: an empty selection writes nothing; the
\* source has as many rows as the selection, or one row that is repeated;
\* anything else raises TypeError
SelFits(rows, sl) ==
    (sl.stop - sl.start = 0) \/ (rows = sl.stop - sl.start) \/ (rows = 1)
WriteRows(ds, sl, mat) ==
    [p \in DOMAIN ds |->
        IF sl.start <= p /\ p < sl.stop
        THEN (IF Len(mat) = sl.stop - sl.start THEN mat[p - sl.start + 1] ELSE mat[1])
        ELSE ds[p]]

\* if self._start_pos == 0: the x axis is written by this chunk
WritesX(s) == s = 0

\* lines 267-277 on group f: the group after every write the call issues,
\* the exception that ends it (if any), and the writes issued
H5Writes(f, s, e, acc, steps) ==
    LET sl    == PosSlice(s, e)
        wx    == WritesX(s)
        xexc  == IF ~wx THEN "none"
                 ELSE IF acc.k = 0 THEN "NameError"
                 ELSE IF ~RowFits(Len(acc.x), steps) THEN "TypeError" ELSE "none"
        fx    == IF wx /\ xexc = "none"
                 THEN [f EXCEPT !.x = AssignRow(acc.x, steps)] ELSE f
        rexc  == IF SelFits(Len(acc.cap_mat), sl) THEN "none" ELSE "TypeError"
    IN  IF xexc # "none" THEN [file |-> f, exc |-> xexc, issued |-> {}]
        ELSE IF rexc # "none"
        THEN [file |-> fx, exc |-> rexc, issued |-> IF wx THEN {"x"} ELSE {}]
        ELSE [file |-> [fx EXCEPT !.cap = WriteRows(@, sl, acc.cap_mat),
                                  !.var = WriteRows(@, sl, acc.r_var_mat),
                                  !.res = WriteRows(@, sl, acc.r_inf_mat),
                                  !.icorr = WriteRows(@, sl, acc.i_cor_mat),
                                  !.attrs.last_pixel = e],
              exc |-> "none",
              issued |-> (IF wx THEN {"x"} ELSE {})
                            \cup {"cap", "var", "res", "icorr", "last_pixel"}]

\* what a crash before the flush leaves: the writes in kept, the rest lost
Persisted(old, new, kept) ==
    [exists |-> old.exists,
     attrs  |-> IF "last_pixel" \in kept THEN new.attrs ELSE old.attrs,
     x      |-> IF "x" \in kept THEN new.x ELSE old.x,
     cap    |-> IF "cap" \in kept THEN new.cap ELSE old.cap,
     var    |-> IF "var" \in kept THEN new.var ELSE old.var,
     res    |-> IF "res" \in kept THEN new.res ELSE old.res,
     icorr  |-> IF "icorr" \in kept THEN new.icorr ELSE old.icorr]

\* ---------------------------------------------- _create_results_datasets
GroupAttrs(parms) == [algorithm_author |-> "Kody J. Law", last_pixel |-> 0, parms |-> parms]

NoGroup == [exists |-> FALSE]

NewGroup(tot, parms) ==
    [exists |-> TRUE,
     attrs  |-> GroupAttrs(parms),
     x      |-> Unwritten,
     cap    |-> [p \in 0..(tot - 1) |-> Unwritten],
     var    |-> [p \in 0..(tot - 1) |-> Unwritten],
     res    |-> [p \in 0..(tot - 1) |-> Unwritten],
     icorr  |-> [p \in 0..(tot - 1) |-> Unwritten]]

\* ------------------------------------------------------ the base class
\* _check_for_duplicates: the groups (indices into existing) whose recorded
\* parameters are the current ones, split by last_pixel
MatchingGroups(existing, parms) ==
    {i \in 1..Len(existing) : existing[i].parms = parms}
DuplicateGroups(existing, parms, tot) ==
    {i \in MatchingGroups(existing, parms) : existing[i].last_pixel >= tot}
PartialGroups(existing, parms, tot) ==
    {i \in MatchingGroups(existing, parms) :
        0 <= existing[i].last_pixel /\ existing[i].last_pixel < tot}

\* _read_data_chunk: the cursor and the chunk that starts at s
EndPos(s, tot, ppc) == Min(s + ppc, tot)
DataChunk(s, tot, ppc) ==
    IF s < tot THEN [i \in 1..(EndPos(s, tot, ppc) - s) |-> H5Main(tot)[s + i - 1]] ELSE <<>>

\* in-place rev_results['x'] *= -1 on the pixels the loop reached
NegatedX(rev, k) ==
    [i \in 1..Len(rev) |-> IF i <= k THEN [rev[i] EXCEPT !.x = Neg(@)] ELSE rev[i]]

\* ------------------------------------------------------------------ state
VARIABLES
    pc,                   \* "off", "constructed", "unit", "write", "done", "failed"
    total,                \* h5_main.shape[0]
    args,                 \* the arguments of the constructor call
    num_x_steps, gain, ex_freq, r_extra, parms_dict,
    max_pos_per_read,     \* self._max_pos_per_read
    duplicate_h5_groups, partial_h5_groups,
    bayes_parms,          \* self._bayes_parms
    start_pos, end_pos,   \* self._start_pos, self._end_pos
    data,                 \* self.data, the chunk in memory
    forward_results, reverse_results,
    exc,                  \* the exception that ended the process, or "none"
    h5_results_grp,       \* the group this process writes to (0: none yet)
    file,                 \* the result group of the chunk engine
    groups,               \* the result groups on the file (duplicate check)
    torn,                 \* history: a crash kept part of an unflushed chunk
    nominal,              \* history: every inference call kept its contract
    infer_raised,         \* history: the last _unit_computation saw a raise
    resumed               \* history: where this run resumed, or -1

vars == <<pc, total, args, num_x_steps, gain, ex_freq, r_extra, parms_dict,
          max_pos_per_read, duplicate_h5_groups, partial_h5_groups, bayes_parms,
          start_pos, end_pos, data, forward_results, reverse_results, exc,
          h5_results_grp, file, groups, torn, nominal, infer_raised, resumed>>

selfVars == <<num_x_steps, gain, ex_freq, r_extra, parms_dict, max_pos_per_read,
              duplicate_h5_groups, partial_h5_groups>>
histVars == <<torn, nominal, infer_raised, resumed>>

\* the base class's estimates that _set_memory_and_cores may start from:
\* the small ones and the ones around the cap
Bases == (0..MaxBase) \cup {MemArrays * MaxChunk, MemArrays * (MaxChunk + 1)}

RunArgs == [num_x_steps : 1..MaxRunSteps, ex_freq : {1}, gain : {FirstGain}, r_extra : {1}]

\* the parameter records of the groups that the constructor finds
Existing == IF file.exists THEN <<[parms |-> file.attrs.parms, last_pixel |-> file.attrs.last_pixel]>>
            ELSE [i \in 1..Len(groups) |-> [parms |-> groups[i].attrs.parms,
                                            last_pixel |-> groups[i].attrs.last_pixel]]

InitCommon ==
    /\ pc = "off"
    /\ num_x_steps = 0 /\ gain = 0 /\ ex_freq = 0 /\ r_extra = 0
    /\ parms_dict = <<>> /\ max_pos_per_read = 0
    /\ duplicate_h5_groups = {} /\ partial_h5_groups = {}
    /\ bayes_parms = <<>>
    /\ start_pos = 0 /\ end_pos = 0 /\ data = <<>>
    /\ forward_results = <<>> /\ reverse_results = <<>>
    /\ exc = "none" /\ h5_results_grp = 0
    /\ file = NoGroup /\ groups = <<>>
    /\ torn = FALSE /\ nominal = TRUE /\ infer_raised = FALSE
    /\ resumed = -1

Init ==
    /\ InitCommon
    /\ total \in 1..MaxPos
    /\ args \in RunArgs

\* __init__ (with the base class's __init__, which calls
\* _set_memory_and_cores and leaves the cursor at 0): a new process
ConstructWith(a, base) ==
    /\ pc \in {"off", "done", "failed"}
    /\ pc' = "constructed"
    /\ args' = a
    /\ max_pos_per_read' = MaxPosPerRead(base)
    /\ gain' = a.gain
    /\ ex_freq' = a.ex_freq
    /\ r_extra' = a.r_extra
    /\ num_x_steps' = AdjustSteps(a.num_x_steps)
    /\ parms_dict' = ParmsDict(a.ex_freq, AdjustSteps(a.num_x_steps), a.r_extra)
    /\ duplicate_h5_groups' = DuplicateGroups(Existing, parms_dict', total)
    /\ partial_h5_groups' = PartialGroups(Existing, parms_dict', total)
    /\ bayes_parms' = <<>>
    /\ start_pos' = 0 /\ end_pos' = 0 /\ data' = <<>>
    /\ forward_results' = <<>> /\ reverse_results' = <<>>
    /\ exc' = "none" /\ h5_results_grp' = 0
    /\ infer_raised' = FALSE /\ resumed' = -1
    /\ UNCHANGED <<total, file, groups, torn, nominal>>

Construct == \E base \in Bases : ConstructWith(args, base)

\* _read_data_chunk at cursor s, as the loop's next step
ReadDataChunk(s) ==
    /\ start_pos' = s
    /\ end_pos' = IF s < total THEN EndPos(s, total, max_pos_per_read) ELSE end_pos
    /\ data' = DataChunk(s, total, max_pos_per_read)
    /\ pc' = IF s < total THEN "unit" ELSE "done"

\* compute: _bayes_parms, then the base class: return a duplicate, resume
\* the latest partial group at its last_pixel, or create a fresh group
\* (the storage layer refuses a dataset of negative width); then read the
\* first chunk
Compute ==
    /\ pc = "constructed"
    /\ bayes_parms' = BayesParms(parms_dict)
    /\ IF duplicate_h5_groups # {}
       THEN /\ pc' = "done" /\ h5_results_grp' = 1
            /\ UNCHANGED <<start_pos, end_pos, data, file, resumed, exc>>
       ELSE IF partial_h5_groups # {}
       THEN /\ ReadDataChunk(file.attrs.last_pixel) /\ h5_results_grp' = 1
            /\ resumed' = file.attrs.last_pixel
            /\ UNCHANGED <<file, exc>>
       ELSE IF num_x_steps < 1
       THEN /\ pc' = "failed" /\ exc' = "ValueError"
            /\ UNCHANGED <<start_pos, end_pos, data, file, resumed, h5_results_grp>>
       ELSE /\ file' = NewGroup(total, parms_dict) /\ h5_results_grp' = 1
            /\ ReadDataChunk(0)
            /\ UNCHANGED <<resumed, exc>>
    /\ UNCHANGED <<total, args, selfVars, forward_results, reverse_results, groups,
                   torn, nominal, infer_raised>>

\* _unit_computation: the reverse halves, then the forward halves.
\* raises: which call raises; cr, cf, n: what the calls return.  At most
\* one call of a group's lifetime breaks the contract of the inference.
UnitComputationWith(raises, cr, cf, n) ==
    /\ pc = "unit"
    /\ nominal \/ (cr = Len(data) /\ cf = Len(data) /\ n = bayes_parms.num_x_steps)
    /\ reverse_results' =
          IF raises = "reverse" THEN reverse_results
          ELSE ParallelCompute(ReverseInput(data), ReverseBias, ex_freq, cr, n)
    /\ forward_results' =
          IF raises # "none" THEN forward_results
          ELSE ParallelCompute(ForwardInput(data), ForwardBias, ex_freq, cf, n)
    /\ infer_raised' = (raises # "none")
    /\ pc' = IF Propagates(raises) THEN "failed" ELSE "write"
    /\ exc' = IF Propagates(raises) THEN "ComputeError" ELSE "none"
    /\ nominal' = (nominal /\ (raises = "none" =>
                      cr = Len(data) /\ cf = Len(data) /\ n = bayes_parms.num_x_steps))
    /\ UNCHANGED <<total, args, selfVars, bayes_parms, start_pos, end_pos, data, file,
                   h5_results_grp, groups, torn, resumed>>

\* what the two calls may return for a chunk of len rows and h requested
\* points: the contract kept, or broken in one way
Returns(len, h) ==
    {[cr |-> len, cf |-> len, n |-> h],
     [cr |-> len, cf |-> len, n |-> h + 1],
     [cr |-> len, cf |-> len + 1, n |-> h]}
    \cup (IF len = 0 THEN {}
          ELSE {[cr |-> len - 1, cf |-> len, n |-> h], [cr |-> len, cf |-> len - 1, n |-> h]})

UnitComputation ==
    /\ pc = "unit"
    /\ \E raises \in {"none", "reverse", "forward"} :
       \E r \in Returns(Len(data), bayes_parms.num_x_steps) :
          UnitComputationWith(raises, r.cr, r.cf, r.n)

ThisAccumulate ==
    Accumulate(data, forward_results, reverse_results, num_x_steps, r_extra, ex_freq)
ThisWrites == H5Writes(file, start_pos, end_pos, ThisAccumulate, num_x_steps)

\* _write_results_chunk, to its flush, and the loop's next read; an
\* exception ends the process, which closes the file with what was issued
WriteResultsChunk ==
    /\ pc = "write"
    /\ reverse_results' = NegatedX(reverse_results, ThisAccumulate.reached)
    /\ IF ThisAccumulate.exc # "none"
       THEN /\ pc' = "failed" /\ exc' = ThisAccumulate.exc
            /\ UNCHANGED <<file, start_pos, end_pos, data>>
       ELSE /\ file' = ThisWrites.file
            /\ exc' = ThisWrites.exc
            /\ IF ThisWrites.exc # "none"
               THEN /\ pc' = "failed"
                    /\ UNCHANGED <<start_pos, end_pos, data>>
               ELSE ReadDataChunk(end_pos)
    /\ UNCHANGED <<total, args, selfVars, bayes_parms, forward_results, groups,
                   h5_results_grp, torn, nominal, infer_raised, resumed>>

ResetProcess ==
    /\ pc' = "off"
    /\ num_x_steps' = 0 /\ gain' = 0 /\ ex_freq' = 0 /\ r_extra' = 0
    /\ parms_dict' = <<>> /\ max_pos_per_read' = 0
    /\ duplicate_h5_groups' = {} /\ partial_h5_groups' = {}
    /\ bayes_parms' = <<>>
    /\ start_pos' = 0 /\ end_pos' = 0 /\ data' = <<>>
    /\ forward_results' = <<>> /\ reverse_results' = <<>>
    /\ exc' = "none" /\ h5_results_grp' = 0
    /\ infer_raised' = FALSE /\ resumed' = -1

\* the process is killed while _write_results_chunk has issued writes and
\* not flushed them: any of them may have reached the file.  At most one
\* such crash in a group's lifetime.
CrashInWrite ==
    /\ pc = "write"
    /\ ~torn
    /\ ThisAccumulate.exc = "none"
    /\ \E kept \in (SUBSET ThisWrites.issued) \ {{}} :
          file' = Persisted(file, ThisWrites.file, kept)
    /\ torn' = TRUE
    /\ ResetProcess
    /\ UNCHANGED <<total, args, groups, nominal>>

\* the process is killed with nothing unflushed
Crash ==
    /\ pc \in {"constructed", "unit", "write"}
    /\ ResetProcess
    /\ UNCHANGED <<total, args, file, groups, torn, nominal>>

Next == Construct \/ Compute \/ UnitComputation \/ WriteResultsChunk \/ CrashInWrite \/ Crash

Spec == Init /\ [][Next]_vars

\* ------------------------------------------------ the constructor alone
\* the chunk engine on one position, for every requested num_x_steps
CtorArgs == [num_x_steps : (0 - MaxReq)..MaxReq, ex_freq : {1}, gain : {FirstGain},
             r_extra : {1}]

InitCtor ==
    /\ InitCommon
    /\ total = 1
    /\ args \in CtorArgs

SpecCtor == InitCtor /\ [][Next]_vars

\* --------------------------------------------------- the duplicate check
\* Runs of the process with changing arguments on one source dataset.  A
\* group is kept as its attributes, with the gain of the instance that
\* created it; a chunk written is the advance of last_pixel.
\* Arguments: one call, and the calls that differ from it in one argument
\* (4 and 6 steps are both adjusted to 6).
DupCall == [num_x_steps |-> 4, ex_freq |-> 1, gain |-> FirstGain, r_extra |-> 0]
DupArgs == {DupCall,
            [DupCall EXCEPT !.num_x_steps = 6],
            [DupCall EXCEPT !.num_x_steps = 2],
            [DupCall EXCEPT !.ex_freq = 2],
            [DupCall EXCEPT !.r_extra = 1],
            [DupCall EXCEPT !.gain = FirstGain + 1]}

\* base estimates that give chunks of one position and chunks at the cap
DupBases == {MemArrays, MemArrays * MaxChunk}

InitDup ==
    /\ InitCommon
    /\ total = 2
    /\ args \in DupArgs

ConstructDup == \E a \in DupArgs : \E base \in DupBases : ConstructWith(a, base)

SetMax(S) == CHOOSE m \in S : \A o \in S : o <= m

\* compute(override): return the latest duplicate, resume the latest
\* partial group, or (override, or nothing matches) create a fresh group
ComputeDup ==
    /\ pc = "constructed"
    /\ bayes_parms' = BayesParms(parms_dict)
    /\ \E override \in BOOLEAN :
          IF ~override /\ duplicate_h5_groups # {}
          THEN /\ pc' = "done" /\ h5_results_grp' = SetMax(duplicate_h5_groups)
               /\ UNCHANGED <<start_pos, groups>>
          ELSE IF ~override /\ partial_h5_groups # {}
          THEN /\ pc' = "running" /\ h5_results_grp' = SetMax(partial_h5_groups)
               /\ start_pos' = groups[SetMax(partial_h5_groups)].attrs.last_pixel
               /\ UNCHANGED groups
          ELSE /\ Len(groups) < MaxGroups
               /\ groups' = Append(groups, [attrs |-> GroupAttrs(parms_dict), gain |-> gain])
               /\ h5_results_grp' = Len(groups) + 1
               /\ start_pos' = 0
               /\ pc' = "running"
    /\ UNCHANGED <<total, args, selfVars, end_pos, data, forward_results, reverse_results,
                   exc, file, histVars>>

\* one chunk computed, written and flushed: last_pixel = end_pos, and the
\* cursor moves there
ChunkDup ==
    /\ pc = "running"
    /\ groups' = [groups EXCEPT ![h5_results_grp].attrs.last_pixel =
                                    EndPos(start_pos, total, max_pos_per_read)]
    /\ start_pos' = EndPos(start_pos, total, max_pos_per_read)
    /\ pc' = IF start_pos' < total THEN "running" ELSE "done"
    /\ UNCHANGED <<total, args, selfVars, bayes_parms, end_pos, data, forward_results,
                   reverse_results, exc, h5_results_grp, file, histVars>>

CrashDup ==
    /\ pc \in {"constructed", "running"}
    /\ ResetProcess
    /\ UNCHANGED <<total, args, file, groups, torn, nominal>>

NextDup == ConstructDup \/ ComputeDup \/ ChunkDup \/ CrashDup

SpecDup == InitDup /\ [][NextDup]_vars

\* ------------------------------------------------------------ the claims
\* what an uninterrupted run with a well-behaved inference leaves in row p
ExpectedPixel(p) ==
    LET steps == AdjustSteps(args.num_x_steps)
        dat   == <<H5Main(total)[p]>>
        rev   == ParallelCompute(ReverseInput(dat), ReverseBias, args.ex_freq, 1, steps \div 2)
        fwd   == ParallelCompute(ForwardInput(dat), ForwardBias, args.ex_freq, 1, steps \div 2)
    IN  PixelResult(dat[1], fwd[1], rev[1], args.r_extra, args.ex_freq)

RowHoldsResult(p) ==
    /\ file.cap[p] = ExpectedPixel(p).cValue
    /\ file.var[p] = ExpectedPixel(p).vR
    /\ file.res[p] = ExpectedPixel(p).mR
    /\ file.icorr[p] = ExpectedPixel(p).i_corr

RowUntouched(p) ==
    /\ file.cap[p] = Unwritten /\ file.var[p] = Unwritten
    /\ file.res[p] = Unwritten /\ file.icorr[p] = Unwritten

C2_RaiseAbortsChunk ==
    /\ [][(pc = "unit" /\ infer_raised') =>
             (/\ pc' = "failed" /\ exc' = "ComputeError"
              /\ file' = file
              /\ start_pos' = start_pos /\ end_pos' = end_pos)]_vars
    /\ [](pc = "unit" => start_pos = file.attrs.last_pixel)

C2_Witness ==
    /\ pc = "failed" /\ infer_raised /\ exc = "ComputeError"
    /\ start_pos >= 1 /\ end_pos > start_pos
    /\ Len(reverse_results) = end_pos - start_pos
    /\ Len(forward_results) # end_pos - start_pos

RowsKept(p) ==
    /\ file'.cap[p] = file.cap[p] /\ file'.var[p] = file.var[p]
    /\ file'.res[p] = file.res[p] /\ file'.icorr[p] = file.icorr[p]

\* C3: a run interrupted at flushed cursors and resumed ends with every
\* row holding what an uninterrupted run leaves there and with
\* last_pixel = total; no step of any run changes a row below last_pixel.
C3_ResumeEqualsOnePass ==
    /\ []((pc = "done" /\ nominal /\ ~torn) =>
             (/\ file.attrs.last_pixel = total
              /\ \A p \in 0..(total - 1) : RowHoldsResult(p)))
    /\ [][(file.exists /\ file'.exists) =>
             \A p \in 0..(file.attrs.last_pixel - 1) : RowsKept(p)]_vars

C3_Witness ==
    /\ pc = "done" /\ nominal /\ ~torn
    /\ total = MaxPos
    /\ resumed >= 1 /\ resumed < total
    /\ start_pos = total

\* C5: every chunk written moves the cursor strictly forward to the end of
\* the chunk, last_pixel with it, and a finished run has both at total.
C5_CursorAdvances ==
    /\ [][(pc = "write" /\ pc' \in {"unit", "done"}) =>
             (/\ start_pos' = end_pos /\ start_pos' > start_pos
              /\ file'.attrs.last_pixel = start_pos')]_vars
    /\ []((pc = "done" /\ ~torn) => file.attrs.last_pixel = total)

\* C6: over the lifetime of a group the x axis is written once, by a chunk
\* that starts at 0 (so a chunk that writes it finds it unwritten), and it
\* is there whenever last_pixel > 0.
C6_XAxisWrittenOnce ==
    /\ [](file.exists => (file.attrs.last_pixel > 0 => file.x # Unwritten))
    /\ [][(pc = "write" /\ pc' # "off" /\ ThisAccumulate.exc = "none"
            /\ "x" \in ThisWrites.issued) =>
             (start_pos = 0 /\ file.x = Unwritten)]_vars

\* the forward and reverse results differ in number, or a merged row has
\* not the width of the output rows
ShapeMismatch ==
    \/ Len(forward_results) # Len(reverse_results)
    \/ \E i \in 1..ZipLen(data, forward_results, reverse_results) :
          Len(forward_results[i].mR) + Len(reverse_results[i].mR) # num_x_steps

\* C7: a chunk whose results mismatch in shape fails and writes no row,
\* and last_pixel stays.
C7_ShapeMismatchFails ==
    [][(pc = "write" /\ ShapeMismatch /\ pc' # "off") =>
          (/\ pc' = "failed"
           /\ file'.attrs.last_pixel = file.attrs.last_pixel
           /\ \A p \in 0..(total - 1) : RowsKept(p))]_vars

\* C4: _set_memory_and_cores leaves 1 <= positions per read <= 500.
C4_ChunkSizeInRange ==
    pc = "constructed" => (1 <= max_pos_per_read /\ max_pos_per_read <= MaxChunk)

\* C8: constructing with num_x_steps <= 0 fails at once with a
\* configuration error and no group is created.
C8_NonPositiveStepsRejected ==
    (args.num_x_steps <= 0 /\ pc # "off") =>
        (pc = "failed" /\ exc = "ConfigError" /\ file = NoGroup)

\* C10: for a positive request, the half count that compute hands to the
\* inference is odd.
C10_HalfCountOdd ==
    (args.num_x_steps > 0 /\ bayes_parms # <<>>) => bayes_parms.num_x_steps % 2 = 1

\* group i was made with the frequency, the (adjusted) step count and the
\* r_extra of this instance, and records them with the fixed
\* hyper-parameters
SameParameters(i) ==
    /\ groups[i].attrs.parms.freq = ex_freq
    /\ groups[i].attrs.parms.num_x_steps = num_x_steps
    /\ groups[i].attrs.parms.r_extra = r_extra
    /\ groups[i].attrs.parms.bayes = BayesianParms

Classified(i, same) ==
    /\ i \in duplicate_h5_groups <=> (same /\ groups[i].attrs.last_pixel >= total)
    /\ i \in partial_h5_groups <=>
          (same /\ 0 <= groups[i].attrs.last_pixel /\ groups[i].attrs.last_pixel < total)
    /\ ~(i \in duplicate_h5_groups /\ i \in partial_h5_groups)

\* C9 as stated: a group is a duplicate or partial exactly when its
\* parameters, the gain among them, are those of this instance.
C9_ClassesWithGain ==
    pc = "constructed" =>
        \A i \in 1..Len(groups) : Classified(i, SameParameters(i) /\ groups[i].gain = gain)

\* C9 as the code has it: the parameter mapping is freq, num_x_steps
\* (adjusted), r_extra and the hyper-parameters; the gain is not in it.
C9_Classes ==
    pc = "constructed" =>
        \A i \in 1..Len(groups) : Classified(i, SameParameters(i))

C9_Witness ==
    /\ pc = "constructed" /\ Len(groups) = 2
    /\ duplicate_h5_groups = {1} /\ partial_h5_groups = {}
    /\ groups[1].gain # gain
    /\ groups[2].attrs.parms.r_extra # r_extra
    /\ args.num_x_steps # num_x_steps

====
